---- MODULE Spec2Model ----
(***************************************************************************)
(* A model of RealityChecker's batch manager (internal/batch/manager.go),  *)
(* its status-code classification (internal/types/types.go) and the two    *)
(* recommendation-star computations (manager.go and the table formatter).  *)
(*                                                                         *)
(* Slots and worker indices are 1-based here; the Go index of slot i is    *)
(* i - 1 and is what the Index fields hold.  Durations are in              *)
(* microseconds.  Strings that the code inspects character by character    *)
(* (domain names) are sequences of one-character strings.                  *)
(***************************************************************************)
EXTENDS Integers, Sequences, FiniteSets, TLC

\* ----------------------------------------------------------------- bounds
\* Longest domain list handed to CheckDomains.
MaxDomains == 2
\* Largest worker-pool size read from config.Concurrency.MinConcurrent.
MaxPool == 1
\* Largest HTTP status code handed to ClassifyStatusCode.
MaxStatusCode == 600
\* Handshake times run from 0 to MaxHandshakeSteps half-milliseconds.
MaxHandshakeSteps == 23
\* Longest result list handed to generateBatchReport.
MaxReportLen == 2
\* Most fields a configuration file sets.
MaxFileFields == 2

\* ------------------------------------------------------------- the values
\* A nil error (errors are strings).
Nil == "nil"

\* Pointers to results: the nil pointer, a pointer to r, and the dereference.
NilPtr == <<>>
Ptr(r) == <<r>>
Deref(p) == p[1]

\* Domain names, as character sequences.
DomA == <<"a", ".", "c", "o", "m">>
DomB == <<"b", ".", "o", "r", "g">>
DomainNames == {DomA, DomB}

\* The domain lists handed to the entry points: every list of length
\* 0..MaxDomains over the two names that starts with a.com (duplicates
\* allowed; the lists starting with b.org are these with the names swapped).
DomainLists ==
    {D \in UNION {[1..n -> DomainNames] : n \in 0..MaxDomains} :
        Len(D) > 0 => D[1] = DomA}

\* Error values, named by what the source's messages say.  ErrTimeout is the
\* error of the timeout branch, ErrNotRunning the one of the entry points'
\* guard, ErrAlreadyRunning and ErrEngineStart those of Start, ErrCtx is
\* ctx.Err(), ErrProbe stands for any error produced by the detection engine.
ErrTimeout == "detection timed out"
ErrNotRunning == "batch manager not running"
ErrAlreadyRunning == "batch manager already running"
ErrEngineStart == "engine start failed"
ErrCtx == "context canceled"
ErrProbe == "probe error"

\* What engine.CheckDomain(ctx, domain) can hand back: a (*DetectionResult,
\* error) pair.  The engine fills Domain with the domain it was asked about;
\* it does not know the batch index, so Index keeps its zero value.
EngineResult(domain, suitable, err) ==
    [Domain |-> domain, Index |-> 0, Suitable |-> suitable, Error |-> err]

EngineOutcomes(domain) ==
    { [Result |-> Ptr(EngineResult(domain, TRUE, Nil)), Error |-> Nil],
      [Result |-> Ptr(EngineResult(domain, FALSE, ErrProbe)), Error |-> ErrProbe],
      [Result |-> NilPtr, Error |-> ErrProbe] }

\* &ProgressResult{Index, Domain, Result, Error}
ProgressResult(index, domain, outcome) ==
    [Index |-> index, Domain |-> domain,
     Result |-> outcome.Result, Error |-> outcome.Error]

\* The synthetic result of the timeout branch for slot i (Go index i - 1).
TimeoutResult(i, domain) ==
    Ptr([Domain |-> domain, Index |-> i - 1, Suitable |-> FALSE,
         Error |-> ErrTimeout])

\* A worker that has no engine answer yet holds no message.
NoMessage == [Index |-> -1, Domain |-> <<>>, Result |-> NilPtr, Error |-> Nil]

\* What a function returned: list says whether the first value is a nil
\* slice ("nil"), a slice ("slice") or the engine's channel ("chan"), "none"
\* when there is no such value (Start, Stop, or a call that has not returned);
\* by names the function or the branch that returned.
NoReturn == [list |-> "none", results |-> <<>>, err |-> Nil, by |-> "none"]
Return(list, res, err, by) ==
    [list |-> list, results |-> res, err |-> err, by |-> by]

VARIABLES
    running,      \* bm.running
    engine,       \* bm.engine: "nil", or the state of the engine it points to
    poolSize,     \* int(bm.config.Concurrency.MinConcurrent)
    op,           \* the entry point called: "none", "CheckDomains", "CheckDomainsStream"
    domains,      \* the domains argument
    cpc,          \* where the caller's goroutine is
    results,      \* the results slice of CheckDomainsWithProgress
    resultChan,   \* the buffered result channel (its queue)
    closed,       \* the producer closed resultChan
    wpc,          \* per worker goroutine: where it is
    held,         \* per worker: the (result, err) engine.CheckDomain returned
    semaphore,    \* number of permits taken (len of the semaphore channel)
    completed,    \* the collector's counter
    ctxDone,      \* the external context is cancelled
    timerFired,   \* the 1200 s timer has fired
    pret,         \* what CheckDomainsWithProgress returned
    ret,          \* what the last call of Start, Stop or an entry point returned
    engineCalls,  \* per index: calls of engine.CheckDomain
    streamCalls,  \* calls of engine.CheckDomainsStream
    statusCode,   \* ClassifyStatusCode: the statusCode argument
    accessible,   \* ClassifyStatusCode: the accessible argument
    category,     \* what ClassifyStatusCode returned (<<>>: not called yet)
    isSafe,       \* what IsStatusCodeSafe returned (<<>>: not called yet)
    isExcluded,   \* what IsStatusCodeExcluded returned (<<>>: not called yet)
    result,       \* the *DetectionResult handed to the star computations
    stars,        \* what Manager.calculateStars returned (<<>>: not called yet)
    recommendation, \* what TableFormatter.calculateRecommendationStars returned
    reportInput,  \* the results argument of generateBatchReport
    reportPc,     \* generateBatchReport: "idle", "done" or "panic"
    statistics,   \* the Statistics of the report generateBatchReport returned
    fileConfig,   \* the configuration parsed from the file (zero where absent)
    config,       \* the configuration being built or validated
    configPc      \* which step of the configuration code comes next

batchVars == <<running, engine, poolSize, op, domains, cpc, results,
               resultChan, closed, wpc, held, semaphore, completed, ctxDone,
               timerFired, pret, ret, engineCalls, streamCalls>>

classifyVars == <<statusCode, accessible, category, isSafe, isExcluded>>

starVars == <<result, stars, recommendation>>

reportVars == <<reportInput, reportPc, statistics>>

configVars == <<fileConfig, config, configPc>>

vars == <<batchVars, classifyVars, starVars, reportVars, configVars>>

\* What no step of a batch changes: the configuration, and the inputs and
\* outputs of the pure functions.
fixed == <<poolSize, classifyVars, starVars, reportVars, configVars>>

N == Len(domains)

\* ---------------------------------------------------------------- Init
\* NewManager: no engine, not running.
InitBatch ==
    /\ running = FALSE
    /\ engine = "nil"
    /\ op = "none"
    /\ domains = <<>>
    /\ cpc = "idle"
    /\ results = <<>>
    /\ resultChan = <<>>
    /\ closed = FALSE
    /\ wpc = <<>>
    /\ held = <<>>
    /\ semaphore = 0
    /\ completed = 0
    /\ ctxDone = FALSE
    /\ timerFired = FALSE
    /\ pret = NoReturn
    /\ ret = NoReturn
    /\ engineCalls = <<>>
    /\ streamCalls = 0

\* No pure function has been called, on fixed arguments.
ClassifyIdle ==
    /\ statusCode = 0
    /\ accessible = FALSE
    /\ category = <<>>
    /\ isSafe = <<>>
    /\ isExcluded = <<>>

StarsIdle ==
    /\ result = [Domain |-> DomA, EarlyExit |-> FALSE, TLS |-> NilPtr,
                 SNI |-> NilPtr, CDN |-> NilPtr]
    /\ stars = <<>>
    /\ recommendation = <<>>

\* Statistics{} with every counter zero.
ZeroStatistics ==
    [TotalDomains |-> 0, SuccessfulChecks |-> 0, FailedChecks |-> 0,
     SuitableDomains |-> 0, BlockedDomains |-> 0]

ReportIdle ==
    /\ reportInput = <<>>
    /\ reportPc = "idle"
    /\ statistics = ZeroStatistics

\* A types.Config with every field at its zero value (what a file that sets
\* nothing parses to).  Durations are in seconds, DNSServers is a sequence.
ZeroConfig ==
    [NetworkTimeout |-> 0, Retries |-> 0, DNSServers |-> <<>>,
     TLSMinVersion |-> 0, TLSMaxVersion |-> 0,
     MaxConcurrent |-> 0, MinConcurrent |-> 0, CheckTimeout |-> 0,
     CacheTTL |-> 0,
     Color |-> FALSE, Verbose |-> FALSE, Format |-> "",
     DNSEnabled |-> FALSE, ResultEnabled |-> FALSE, CacheConfigTTL |-> 0,
     MaxSize |-> 0,
     StreamOutput |-> FALSE, ProgressBar |-> FALSE, ReportFormat |-> "",
     BatchTimeout |-> 0]

ConfigIdle ==
    /\ fileConfig = ZeroConfig
    /\ config = ZeroConfig
    /\ configPc = "idle"

Init ==
    /\ InitBatch
    /\ poolSize \in 0..MaxPool
    /\ ClassifyIdle
    /\ StarsIdle
    /\ ReportIdle
    /\ ConfigIdle

callVars == <<op, domains, cpc, results, resultChan, closed, wpc, held,
              semaphore, completed, ctxDone, timerFired, pret,
              engineCalls, streamCalls>>

\* ------------------------------------------------------- Start and Stop
\* Manager.Start.  engine.Start() of a freshly created engine may fail.
Start ==
    /\ cpc = "idle"
    /\ IF running
       THEN /\ ret' = Return("none", <<>>, ErrAlreadyRunning, "Start")
            /\ UNCHANGED <<running, engine>>
       ELSE IF engine = "nil"
            THEN \E ok \in BOOLEAN :
                   IF ok
                   THEN /\ engine' = "started"
                        /\ running' = TRUE
                        /\ ret' = Return("none", <<>>, Nil, "Start")
                   ELSE /\ engine' = "failed"
                        /\ running' = FALSE
                        /\ ret' = Return("none", <<>>, ErrEngineStart, "Start")
            ELSE /\ running' = TRUE
                 /\ ret' = Return("none", <<>>, Nil, "Start")
                 /\ UNCHANGED engine
    /\ UNCHANGED <<fixed, callVars>>

\* Manager.Stop.
Stop ==
    /\ cpc = "idle"
    /\ IF ~running
       THEN /\ ret' = Return("none", <<>>, Nil, "Stop")
            /\ UNCHANGED <<running, engine>>
       ELSE /\ engine' = IF engine # "nil" THEN "stopped" ELSE engine
            /\ running' = FALSE
            /\ ret' = Return("none", <<>>, Nil, "Stop")
    /\ UNCHANGED <<fixed, callVars>>

\* ------------------------------------------------------ the entry points
\* A guard that was left out: the call goes on whatever bm.running is.
RejectCallMissing(isRunning) == FALSE

\* The guard of CheckDomains and CheckDomainsStream: if !bm.running.
RejectCall(isRunning) == ~isRunning

\* CheckDomains up to the point where CheckDomainsWithProgress has made its
\* slice and channel and its producer goroutine has spawned the workers.
CheckDomains(D) ==
    /\ cpc = "idle"
    /\ op' = "CheckDomains"
    /\ domains' = D
    /\ IF RejectCall(running)
       THEN /\ cpc' = "done"
            /\ ret' = Return("nil", <<>>, ErrNotRunning, "guard")
            /\ UNCHANGED <<results, wpc, held, engineCalls>>
       ELSE IF Len(D) = 0
            THEN /\ cpc' = "done"
                 /\ ret' = Return("slice", <<>>, Nil, "empty")
                 /\ UNCHANGED <<results, wpc, held, engineCalls>>
            ELSE /\ cpc' = "collecting"
                 /\ results' = [i \in 1..Len(D) |-> NilPtr]
                 /\ wpc' = [i \in 1..Len(D) |-> "waiting"]
                 /\ held' = [i \in 1..Len(D) |-> NoMessage]
                 /\ engineCalls' = [i \in 1..Len(D) |-> 0]
                 /\ ret' = NoReturn
    /\ UNCHANGED <<running, engine, fixed, resultChan, closed,
                   semaphore, completed, ctxDone, timerFired, pret, streamCalls>>

\* CheckDomainsStream: the guard, then the engine's own stream.
CheckDomainsStream(D) ==
    /\ cpc = "idle"
    /\ op' = "CheckDomainsStream"
    /\ domains' = D
    /\ cpc' = "done"
    /\ IF RejectCall(running)
       THEN /\ ret' = Return("nil", <<>>, ErrNotRunning, "guard")
            /\ UNCHANGED streamCalls
       ELSE /\ ret' = Return("chan", <<>>, Nil, "engine")
            /\ streamCalls' = streamCalls + 1
    /\ UNCHANGED <<running, engine, fixed, results, resultChan,
                   closed, wpc, held, semaphore, completed, ctxDone,
                   timerFired, pret, engineCalls>>

\* ---------------------------------------------------- the environment
\* The caller cancels the external context.
Cancel ==
    /\ wpc # <<>>
    /\ ~ctxDone
    /\ ctxDone' = TRUE
    /\ UNCHANGED <<running, engine, fixed, op, domains, cpc,
                   results, resultChan, closed, wpc, held, semaphore, completed,
                   timerFired, pret, ret, engineCalls, streamCalls>>

\* The 1200 s timer of the collector fires.
TimerFire ==
    /\ cpc = "collecting"
    /\ ~timerFired
    /\ timerFired' = TRUE
    /\ UNCHANGED <<running, engine, fixed, op, domains, cpc,
                   results, resultChan, closed, wpc, held, semaphore, completed,
                   ctxDone, pret, ret, engineCalls, streamCalls>>

\* ------------------------------------------------------------ the workers
workerFrame == <<running, engine, fixed, op, domains, cpc,
                 results, completed, ctxDone, timerFired, pret, ret,
                 streamCalls>>

\* A semaphore channel made one slot too large.
CanAcquireOffByOne(sem, n) == sem <= n

\* A send on the semaphore channel (capacity n) can proceed.
CanAcquire(sem, n) == sem < n

\* select { case semaphore <- struct{}{}: ... }
Acquire(i) ==
    /\ wpc[i] = "waiting"
    /\ CanAcquire(semaphore, poolSize)
    /\ semaphore' = semaphore + 1
    /\ wpc' = [wpc EXCEPT ![i] = "running"]
    /\ UNCHANGED <<workerFrame, resultChan, closed, held, engineCalls>>

\* select { ... case <-ctx.Done(): return }: no permit was taken.
AbortWaiting(i) ==
    /\ wpc[i] = "waiting"
    /\ ctxDone
    /\ wpc' = [wpc EXCEPT ![i] = "cancelled"]
    /\ UNCHANGED <<workerFrame, resultChan, closed, held, semaphore, engineCalls>>

\* A worker that calls the engine again when the call returned an error.
AfterCheckDomainRetry(outcome) ==
    IF outcome.Error # Nil THEN "running" ELSE "sending"

\* Where a worker goes when engine.CheckDomain has returned: to the send of
\* its one message, whatever the outcome.
AfterCheckDomain(outcome) == "sending"

\* result, err := bm.engine.CheckDomain(ctx, domain) returns.
CheckDomain(i) ==
    /\ wpc[i] = "running"
    /\ \E o \in EngineOutcomes(domains[i]) :
         /\ held' = [held EXCEPT ![i] = ProgressResult(i - 1, domains[i], o)]
         /\ wpc' = [wpc EXCEPT ![i] = AfterCheckDomain(o)]
    /\ engineCalls' = [engineCalls EXCEPT ![i] = @ + 1]
    /\ UNCHANGED <<workerFrame, resultChan, closed, semaphore>>

\* The deferred <-semaphore of a worker that took a permit.
Release(sem) == sem - 1

\* A result channel made one slot too small.
CanSendOneShort(buffered, n) == buffered < n - 1

\* A send on resultChan, made with capacity n = len(domains), can proceed.
CanSend(buffered, n) == buffered < n

\* select { case resultChan <- &ProgressResult{...}: }, then the deferred
\* release and wg.Done.
Send(i) ==
    /\ wpc[i] = "sending"
    /\ CanSend(Len(resultChan), N)
    /\ resultChan' = Append(resultChan, held[i])
    /\ semaphore' = Release(semaphore)
    /\ wpc' = [wpc EXCEPT ![i] = "sent"]
    /\ UNCHANGED <<workerFrame, closed, held, engineCalls>>

\* select { ... case <-ctx.Done(): return }, then the deferred release.
AbortSending(i) ==
    /\ wpc[i] = "sending"
    /\ ctxDone
    /\ semaphore' = Release(semaphore)
    /\ wpc' = [wpc EXCEPT ![i] = "cancelled"]
    /\ UNCHANGED <<workerFrame, resultChan, closed, held, engineCalls>>

WorkersDone == \A i \in 1..Len(wpc) : wpc[i] \in {"sent", "cancelled"}

\* The producer goroutine: wg.Wait() returns, the deferred close runs.
Close ==
    /\ wpc # <<>>
    /\ WorkersDone
    /\ ~closed
    /\ closed' = TRUE
    /\ UNCHANGED <<workerFrame, resultChan, wpc, held, semaphore, engineCalls>>

\* ---------------------------------------------------------- the collector
collectorFrame == <<running, engine, fixed, op, domains, closed,
                    wpc, held, semaphore, ctxDone, timerFired, ret,
                    engineCalls, streamCalls>>

\* case progressResult := <-resultChan, on a message a worker sent: the slot
\* assignment, the counter, the progress line, and the loop test.
Receive ==
    /\ cpc = "collecting"
    /\ resultChan # <<>>
    /\ LET m == Head(resultChan)
           r == [results EXCEPT ![m.Index + 1] = m.Result]
       IN  /\ resultChan' = Tail(resultChan)
           /\ results' = r
           /\ completed' = completed + 1
           /\ IF m.Error = Nil /\ m.Result = NilPtr
              THEN \* progressResult.Result.Suitable on a nil Result
                   /\ cpc' = "panic"
                   /\ pret' = pret
              ELSE IF completed + 1 < N
                   THEN /\ cpc' = "collecting"
                        /\ pret' = pret
                   ELSE /\ cpc' = "reporting"
                        /\ pret' = Return("slice", r, Nil, "loop")
    /\ UNCHANGED collectorFrame

\* case progressResult := <-resultChan, on the closed and drained channel: the
\* receive yields nil and progressResult.Index dereferences it.
ReceiveClosed ==
    /\ cpc = "collecting"
    /\ resultChan = <<>>
    /\ closed
    /\ cpc' = "panic"
    /\ UNCHANGED <<collectorFrame, results, resultChan, completed, pret>>

\* case <-ctx.Done(): return nil, ctx.Err()
CtxDone ==
    /\ cpc = "collecting"
    /\ ctxDone
    /\ cpc' = "reporting"
    /\ pret' = Return("nil", <<>>, ErrCtx, "ctx")
    /\ UNCHANGED <<collectorFrame, results, resultChan, completed>>

\* A timeout branch that only prints the unfinished domains.
TimeoutFillDropped(res, doms) == res

\* A timeout branch without the nil test: every slot is replaced.
TimeoutFillAll(res, doms) ==
    [i \in 1..Len(res) |-> TimeoutResult(i, doms[i])]

\* The loop of the timeout branch: every slot that is still nil gets the
\* synthetic timeout result.
TimeoutFill(res, doms) ==
    [i \in 1..Len(res) |->
        IF res[i] = NilPtr THEN TimeoutResult(i, doms[i]) ELSE res[i]]

\* case <-timeout.C: fill, return results, nil
Timeout ==
    /\ cpc = "collecting"
    /\ timerFired
    /\ results' = TimeoutFill(results, domains)
    /\ cpc' = "reporting"
    /\ pret' = Return("slice", TimeoutFill(results, domains), Nil, "timeout")
    /\ UNCHANGED <<collectorFrame, resultChan, completed>>

\* generateBatchReport reads result.Error of every entry: a nil entry is a
\* nil-pointer dereference.
ReportPanics(res) == \E i \in 1..Len(res) : res[i] = NilPtr

\* CheckDomains after CheckDomainsWithProgress returned: the error is passed
\* on, or the report is generated and printed and the results returned.
Report ==
    /\ cpc = "reporting"
    /\ IF pret.err # Nil
       THEN /\ cpc' = "done"
            /\ ret' = Return("nil", <<>>, pret.err, pret.by)
       ELSE IF ReportPanics(pret.results)
            THEN /\ cpc' = "panic"
                 /\ ret' = ret
            ELSE /\ cpc' = "done"
                 /\ ret' = Return("slice", pret.results, Nil, pret.by)
    /\ UNCHANGED <<running, engine, fixed, op, domains, results,
                   resultChan, closed, wpc, held, semaphore, completed, ctxDone,
                   timerFired, pret, engineCalls, streamCalls>>

\* ------------------------------------------------------------------ Next
Next ==
    \/ Start
    \/ Stop
    \/ \E D \in DomainLists : CheckDomains(D)
    \/ \E D \in DomainLists : CheckDomainsStream(D)
    \/ Cancel
    \/ TimerFire
    \/ \E i \in 1..Len(wpc) : Acquire(i)
    \/ \E i \in 1..Len(wpc) : AbortWaiting(i)
    \/ \E i \in 1..Len(wpc) : CheckDomain(i)
    \/ \E i \in 1..Len(wpc) : Send(i)
    \/ \E i \in 1..Len(wpc) : AbortSending(i)
    \/ Close
    \/ Receive
    \/ ReceiveClosed
    \/ CtxDone
    \/ Timeout
    \/ Report

Spec == Init /\ [][Next]_vars

\* ------------------------------------------------------- fair scheduling
\* A goroutine that can take a step takes one: a worker's select, the
\* engine call it is in, the producer's close, the collector's select, and
\* CheckDomains after the collector.  The caller's cancel and the timer are
\* the environment's and are not forced.
WorkerSelect ==
    \E i \in 1..Len(wpc) :
        Acquire(i) \/ AbortWaiting(i) \/ Send(i) \/ AbortSending(i)

EngineReturns == \E i \in 1..Len(wpc) : CheckDomain(i)

CollectorSelect == Receive \/ ReceiveClosed \/ CtxDone \/ Timeout

Fairness ==
    /\ WF_vars(WorkerSelect)
    /\ WF_vars(EngineReturns)
    /\ WF_vars(Close)
    /\ WF_vars(CollectorSelect)
    /\ WF_vars(Report)

FairSpec == Init /\ [][Next]_vars /\ Fairness

\* ======================================================================
\* Status-code classification (internal/types/types.go)
\* ======================================================================
StatusCodeCategorySafe == "safe"
StatusCodeCategoryExcluded == "excluded"
StatusCodeCategoryNetwork == "network"

StatusCodes == 0..MaxStatusCode

\* The classification the comment on the category constants describes
\* (200, 301, 302 and 404 safe).
ClassifyStatusCodeStale(code, isAccessible) ==
    IF ~isAccessible THEN StatusCodeCategoryNetwork
    ELSE IF code \in {200, 301, 302, 404} THEN StatusCodeCategorySafe
    ELSE StatusCodeCategoryExcluded

ClassifyStatusCode(code, isAccessible) ==
    IF ~isAccessible THEN StatusCodeCategoryNetwork
    ELSE IF code = 200 THEN StatusCodeCategorySafe
    ELSE IF code \in {301, 302, 401, 403, 404, 407, 408, 429}
         THEN StatusCodeCategoryExcluded
    ELSE IF code >= 500 /\ code < 600 THEN StatusCodeCategoryExcluded
    ELSE StatusCodeCategoryExcluded

IsStatusCodeSafe(code) ==
    ClassifyStatusCode(code, TRUE) = StatusCodeCategorySafe

IsStatusCodeExcluded(code) ==
    ClassifyStatusCode(code, TRUE) = StatusCodeCategoryExcluded

InitClassify ==
    /\ InitBatch
    /\ poolSize = 1
    /\ StarsIdle
    /\ ReportIdle
    /\ ConfigIdle
    /\ statusCode \in StatusCodes
    /\ accessible \in BOOLEAN
    /\ category = <<>>
    /\ isSafe = <<>>
    /\ isExcluded = <<>>

CallClassifyStatusCode ==
    /\ category = <<>>
    /\ category' = <<ClassifyStatusCode(statusCode, accessible)>>
    /\ UNCHANGED <<batchVars, starVars, reportVars, configVars, statusCode, accessible, isSafe, isExcluded>>

CallIsStatusCodeSafe ==
    /\ isSafe = <<>>
    /\ isSafe' = <<IsStatusCodeSafe(statusCode)>>
    /\ UNCHANGED <<batchVars, starVars, reportVars, configVars, statusCode, accessible, category, isExcluded>>

CallIsStatusCodeExcluded ==
    /\ isExcluded = <<>>
    /\ isExcluded' = <<IsStatusCodeExcluded(statusCode)>>
    /\ UNCHANGED <<batchVars, starVars, reportVars, configVars, statusCode, accessible, category, isSafe>>

NextClassify ==
    \/ CallClassifyStatusCode
    \/ CallIsStatusCodeSafe
    \/ CallIsStatusCodeExcluded

SpecClassify == InitClassify /\ [][NextClassify]_vars

\* ======================================================================
\* Recommendation stars (manager.go calculateStars, the table formatter's
\* calculateRecommendationStars)
\* ======================================================================
\* strings.HasSuffix
HasSuffix(s, suffix) ==
    /\ Len(s) >= Len(suffix)
    /\ SubSeq(s, Len(s) - Len(suffix) + 1, Len(s)) = suffix

DotCom == <<".", "c", "o", "m">>
DotNet == <<".", "n", "e", "t">>

\* time.Duration.Milliseconds of a duration in microseconds: the integer
\* quotient (for the positive durations it is applied to).
Milliseconds(d) == d \div 1000

\* Manager.calculateStars
calculateStars(r) ==
    LET s1 == IF /\ r.TLS # NilPtr
                 /\ Deref(r.TLS).SupportsTLS13
                 /\ Deref(r.TLS).SupportsX25519
                 /\ Deref(r.TLS).SupportsHTTP2
                 /\ r.SNI # NilPtr
                 /\ Deref(r.SNI).SNIMatch
              THEN 1 ELSE 0
        s2 == IF /\ r.TLS # NilPtr
                 /\ Deref(r.TLS).HandshakeTime > 0
                 /\ Milliseconds(Deref(r.TLS).HandshakeTime) <= 10
              THEN 1 ELSE 0
        s3 == IF r.CDN = NilPtr \/ ~Deref(r.CDN).IsCDN THEN 1 ELSE 0
        s4 == IF HasSuffix(r.Domain, DotCom) \/ HasSuffix(r.Domain, DotNet)
              THEN 1 ELSE 0
    IN  s1 + s2 + s3 + s4

\* The text of an early exit (a red "invalid" in the source's language) and
\* the text of n stars, each a sequence of printed symbols.
InvalidText == <<"invalid">>
StarsText(n) == [i \in 1..n |-> "*"]

\* TableFormatter.calculateRecommendationStars
calculateRecommendationStars(r) ==
    IF r.EarlyExit THEN InvalidText
    ELSE
    LET s1 == IF /\ r.TLS # NilPtr
                 /\ Deref(r.TLS).SupportsTLS13
                 /\ Deref(r.TLS).SupportsX25519
                 /\ Deref(r.TLS).SupportsHTTP2
                 /\ r.SNI # NilPtr
                 /\ Deref(r.SNI).SNIMatch
              THEN 1 ELSE 0
        s2 == IF /\ r.TLS # NilPtr
                 /\ Deref(r.TLS).HandshakeTime > 0
                 /\ Milliseconds(Deref(r.TLS).HandshakeTime) <= 10
              THEN 1 ELSE 0
        s3 == IF r.CDN = NilPtr \/ ~Deref(r.CDN).IsCDN THEN 1 ELSE 0
        s4 == IF HasSuffix(r.Domain, DotCom) \/ HasSuffix(r.Domain, DotNet)
              THEN 1 ELSE 0
    IN  StarsText(s1 + s2 + s3 + s4)

\* The results the star computations are tried on.
HandshakeTimes == {k * 500 : k \in 0..MaxHandshakeSteps}

TLSResults ==
    [SupportsTLS13 : BOOLEAN, SupportsX25519 : BOOLEAN,
     SupportsHTTP2 : BOOLEAN, HandshakeTime : HandshakeTimes]
SNIResults == [SNIMatch : BOOLEAN]
CDNResults == [IsCDN : BOOLEAN]

OptionalOf(S) == {NilPtr} \cup {Ptr(x) : x \in S}

StarDomains ==
    { DomA, DomB,
      <<"c", ".", "n", "e", "t">>,
      <<"c", "o", "m">>,
      <<"a", ".", "c", "o", "m", ".", "c", "n">> }

StarResults ==
    [Domain : StarDomains, EarlyExit : BOOLEAN, TLS : OptionalOf(TLSResults),
     SNI : OptionalOf(SNIResults), CDN : OptionalOf(CDNResults)]

InitStars ==
    /\ InitBatch
    /\ poolSize = 1
    /\ ClassifyIdle
    /\ ReportIdle
    /\ ConfigIdle
    /\ result \in StarResults
    /\ stars = <<>>
    /\ recommendation = <<>>

CallCalculateStars ==
    /\ stars = <<>>
    /\ stars' = <<calculateStars(result)>>
    /\ UNCHANGED <<batchVars, classifyVars, reportVars, configVars, result, recommendation>>

CallCalculateRecommendationStars ==
    /\ recommendation = <<>>
    /\ recommendation' = <<calculateRecommendationStars(result)>>
    /\ UNCHANGED <<batchVars, classifyVars, reportVars, configVars, result, stars>>

NextStars ==
    \/ CallCalculateStars
    \/ CallCalculateRecommendationStars

SpecStars == InitStars /\ [][NextStars]_vars

\* ======================================================================
\* The batch report's statistics (manager.go generateBatchReport)
\* ======================================================================
\* Error messages are sequences of written symbols, each Chinese character
\* of the source's messages spelled in Latin letters.
PhraseBlocked == <<"yu", "ming", "bei", "qiang">>
PhraseDomestic == <<"guo", "nei", "wang", "zhan">>

\* strings.Contains
Contains(s, substr) ==
    \E k \in 0..(Len(s) - Len(substr)) :
        SubSeq(s, k + 1, k + Len(substr)) = substr

\* An error test that knows only the blocked phrase.
IsNormalOutcomeBlockedOnly(errorMsg) == Contains(errorMsg, PhraseBlocked)

\* The test that tells a normal detection outcome from a technical error.
IsNormalOutcome(errorMsg) ==
    Contains(errorMsg, PhraseBlocked) \/ Contains(errorMsg, PhraseDomestic)

\* One pass of the loop body over a non-nil result r.
CountResult(stats, r) ==
    LET afterError ==
            IF r.Error = NilPtr
            THEN [stats EXCEPT !.SuccessfulChecks = @ + 1]
            ELSE IF IsNormalOutcome(Deref(r.Error))
                 THEN [stats EXCEPT !.SuccessfulChecks = @ + 1]
                 ELSE [stats EXCEPT !.FailedChecks = @ + 1]
        afterSuitable ==
            IF r.Suitable
            THEN [afterError EXCEPT !.SuitableDomains = @ + 1]
            ELSE afterError
    IN  IF r.Blocked # NilPtr /\ Deref(r.Blocked).IsBlocked
        THEN [afterSuitable EXCEPT !.BlockedDomains = @ + 1]
        ELSE afterSuitable

\* The loop of generateBatchReport from entry k on.
RECURSIVE CountFrom(_, _, _)
CountFrom(res, k, stats) ==
    IF k > Len(res) THEN stats
    ELSE CountFrom(res, k + 1, CountResult(stats, Deref(res[k])))

\* The statistics of generateBatchReport (for a list without nil entries).
generateBatchReport(res) ==
    CountFrom(res, 1, [ZeroStatistics EXCEPT !.TotalDomains = Len(res)])

\* The result lists the report is tried on.  An error is a nil error or a
\* pointer to its message.
ReportErrors ==
    { NilPtr,
      Ptr(PhraseBlocked),
      Ptr(<<"jian", "ce", ":">> \o PhraseDomestic),
      Ptr(<<"jian", "ce", "chao", "shi">>),
      Ptr(<<"yu", "ming", "jie", "xi">>) }

BlockedResults == [IsBlocked : BOOLEAN]

ReportResults ==
    [Error : ReportErrors, Suitable : BOOLEAN,
     Blocked : OptionalOf(BlockedResults)]

ReportLists ==
    UNION {[1..n -> OptionalOf(ReportResults)] : n \in 0..MaxReportLen}

InitReport ==
    /\ InitBatch
    /\ poolSize = 1
    /\ ClassifyIdle
    /\ StarsIdle
    /\ ConfigIdle
    /\ reportInput \in ReportLists
    /\ reportPc = "idle"
    /\ statistics = ZeroStatistics

\* generateBatchReport: reading result.Error of a nil entry is a nil-pointer
\* dereference; otherwise the statistics are returned.
CallGenerateBatchReport ==
    /\ reportPc = "idle"
    /\ IF ReportPanics(reportInput)
       THEN /\ reportPc' = "panic"
            /\ statistics' = statistics
       ELSE /\ reportPc' = "done"
            /\ statistics' = generateBatchReport(reportInput)
    /\ UNCHANGED <<batchVars, classifyVars, starVars, configVars, reportInput>>

NextReport == CallGenerateBatchReport

SpecReport == InitReport /\ [][NextReport]_vars

\* ======================================================================
\* Loading the configuration (LoadConfig, mergeConfig, getDefaultConfig,
\* validateAndSetDefaults).  Durations are in seconds.
\* ======================================================================
DefaultDNSServers == <<"8.8.8.8", "1.1.1.1">>

getDefaultConfig ==
    [NetworkTimeout |-> 3, Retries |-> 1, DNSServers |-> DefaultDNSServers,
     TLSMinVersion |-> 771, TLSMaxVersion |-> 772,
     MaxConcurrent |-> 8, MinConcurrent |-> 1,
     CheckTimeout |-> 3, CacheTTL |-> 300,
     Color |-> TRUE, Verbose |-> FALSE, Format |-> "table",
     DNSEnabled |-> TRUE, ResultEnabled |-> TRUE,
     CacheConfigTTL |-> 300, MaxSize |-> 1000,
     StreamOutput |-> FALSE, ProgressBar |-> TRUE,
     ReportFormat |-> "text", BatchTimeout |-> 30]

\* mergeConfig: the file's configuration f laid over the defaults d.
mergeConfig(d, f) ==
    [NetworkTimeout |-> IF f.NetworkTimeout > 0 THEN f.NetworkTimeout
                        ELSE d.NetworkTimeout,
     Retries        |-> IF f.Retries >= 0 THEN f.Retries ELSE d.Retries,
     DNSServers     |-> IF Len(f.DNSServers) > 0 THEN f.DNSServers
                        ELSE d.DNSServers,
     TLSMinVersion  |-> IF f.TLSMinVersion > 0 THEN f.TLSMinVersion
                        ELSE d.TLSMinVersion,
     TLSMaxVersion  |-> IF f.TLSMaxVersion > 0 THEN f.TLSMaxVersion
                        ELSE d.TLSMaxVersion,
     MaxConcurrent  |-> IF f.MaxConcurrent > 0 THEN f.MaxConcurrent
                        ELSE d.MaxConcurrent,
     MinConcurrent  |-> IF f.MinConcurrent > 0 THEN f.MinConcurrent
                        ELSE d.MinConcurrent,
     CheckTimeout   |-> IF f.CheckTimeout > 0 THEN f.CheckTimeout
                        ELSE d.CheckTimeout,
     CacheTTL       |-> IF f.CacheTTL > 0 THEN f.CacheTTL ELSE d.CacheTTL,
     Format         |-> IF f.Format # "" THEN f.Format ELSE d.Format,
     Color          |-> f.Color,
     Verbose        |-> f.Verbose,
     DNSEnabled     |-> f.DNSEnabled,
     ResultEnabled  |-> f.ResultEnabled,
     CacheConfigTTL |-> IF f.CacheConfigTTL > 0 THEN f.CacheConfigTTL
                        ELSE d.CacheConfigTTL,
     MaxSize        |-> IF f.MaxSize > 0 THEN f.MaxSize ELSE d.MaxSize,
     StreamOutput   |-> f.StreamOutput,
     ProgressBar    |-> f.ProgressBar,
     ReportFormat   |-> IF f.ReportFormat # "" THEN f.ReportFormat
                        ELSE d.ReportFormat,
     BatchTimeout   |-> IF f.BatchTimeout > 0 THEN f.BatchTimeout
                        ELSE d.BatchTimeout]

\* validateAndSetDefaults.  Concurrency.MinConcurrent is not among the fields
\* it looks at.
validateAndSetDefaults(c) ==
    [c EXCEPT
       !.NetworkTimeout = IF @ <= 0 THEN 30 ELSE @,
       !.Retries        = IF @ < 0 THEN 3 ELSE @,
       !.DNSServers     = IF Len(@) = 0 THEN DefaultDNSServers ELSE @,
       !.TLSMinVersion  = IF @ = 0 THEN 771 ELSE @,
       !.TLSMaxVersion  = IF @ = 0 THEN 772 ELSE @,
       !.MaxConcurrent  = IF @ <= 0 THEN 8 ELSE @,
       !.CheckTimeout   = IF @ <= 0 THEN 30 ELSE @,
       !.CacheTTL       = IF @ <= 0 THEN 300 ELSE @,
       !.Format         = IF @ = "" THEN "table" ELSE @,
       !.CacheConfigTTL = IF @ <= 0 THEN 300 ELSE @,
       !.MaxSize        = IF @ <= 0 THEN 1000 ELSE @,
       !.ReportFormat   = IF @ = "" THEN "text" ELSE @,
       !.BatchTimeout   = IF @ <= 0 THEN 60 ELSE @]

\* The values a configuration sets a field to, by the field's type.
IntFieldValues ==
    [NetworkTimeout |-> {-1, 5}, Retries |-> {-1, 2},
     TLSMinVersion |-> {770}, TLSMaxVersion |-> {771},
     MaxConcurrent |-> {-1, 4}, MinConcurrent |-> {-1, 2},
     CheckTimeout |-> {-1, 10}, CacheTTL |-> {-1, 60},
     CacheConfigTTL |-> {-1, 60}, MaxSize |-> {-1, 500},
     BatchTimeout |-> {-1, 120}]

BoolFields ==
    {"Color", "Verbose", "DNSEnabled", "ResultEnabled", "StreamOutput",
     "ProgressBar"}

StringFields == {"Format", "ReportFormat"}

\* The configurations that set one more field of c.
SetOneField(c) ==
    {[c EXCEPT ![x] = v] :
        <<x, v>> \in UNION {{<<y, w>> : w \in IntFieldValues[y]} :
                              y \in DOMAIN IntFieldValues}}
    \cup {[c EXCEPT ![x] = TRUE] : x \in BoolFields}
    \cup {[c EXCEPT ![x] = "json"] : x \in StringFields}
    \cup {[c EXCEPT !.DNSServers = <<"9.9.9.9">>]}

\* The configurations that set at most k fields, the others being zero (a
\* field the YAML file does not mention parses to its zero value).
RECURSIVE ConfigsSetting(_)
ConfigsSetting(k) ==
    IF k = 0 THEN {ZeroConfig}
    ELSE LET fewer == ConfigsSetting(k - 1)
         IN  fewer \cup UNION {SetOneField(c) : c \in fewer}

FileConfigs == ConfigsSetting(MaxFileFields)

InitConfig ==
    /\ InitBatch
    /\ poolSize = 1
    /\ ClassifyIdle
    /\ StarsIdle
    /\ ReportIdle
    /\ fileConfig \in FileConfigs
    /\ config = ZeroConfig
    /\ configPc = "idle"

configFrame == <<batchVars, classifyVars, starVars, reportVars, fileConfig>>

\* LoadConfig with a configuration file that parses to fileConfig.
LoadConfig ==
    /\ configPc = "idle"
    /\ config' = validateAndSetDefaults(mergeConfig(getDefaultConfig, fileConfig))
    /\ configPc' = "loaded"
    /\ UNCHANGED configFrame

\* LoadConfig("") with no configuration file at the default places.
LoadConfigNoFile ==
    /\ configPc = "idle"
    /\ config' = validateAndSetDefaults(getDefaultConfig)
    /\ configPc' = "loaded"
    /\ UNCHANGED configFrame

\* LoadConfig(path) with a file that is missing or does not parse.
LoadConfigFails ==
    /\ configPc = "idle"
    /\ configPc' = "error"
    /\ UNCHANGED <<configFrame, config>>

\* validateAndSetDefaults on the configuration fileConfig itself.
CallValidateAndSetDefaults ==
    /\ configPc = "idle"
    /\ config' = validateAndSetDefaults(fileConfig)
    /\ configPc' = "validated"
    /\ UNCHANGED configFrame

\* validateAndSetDefaults a second time, on a validated configuration.
ValidateAgain ==
    /\ configPc \in {"loaded", "validated"}
    /\ config' = validateAndSetDefaults(config)
    /\ configPc' = "revalidated"
    /\ UNCHANGED configFrame

NextConfig ==
    \/ LoadConfig
    \/ LoadConfigNoFile
    \/ LoadConfigFails
    \/ CallValidateAndSetDefaults
    \/ ValidateAgain

SpecConfig == InitConfig /\ [][NextConfig]_vars

\* ======================================================================
\* The claims
\* ======================================================================
\* The collector has taken worker i's message off the result channel.
Collected(i) ==
    /\ wpc[i] = "sent"
    /\ \A k \in 1..Len(resultChan) : resultChan[k].Index # i - 1

\* The workers that hold a semaphore permit.
Holders == {i \in 1..Len(wpc) : wpc[i] \in {"running", "sending"}}

\* C1: whenever CheckDomainsWithProgress (and CheckDomains on top of it)
\* returns a result list without error, the list has len(D) entries, every
\* entry is non-nil, and entry i carries the domain D[i].
C1_OrderPreserved ==
    /\ (pret.list = "slice" /\ pret.err = Nil) =>
          /\ Len(pret.results) = N
          /\ \A i \in 1..N :
                /\ pret.results[i] # NilPtr
                /\ Deref(pret.results[i]).Domain = domains[i]
    /\ (op = "CheckDomains" /\ ret.list = "slice" /\ ret.err = Nil) =>
          /\ Len(ret.results) = N
          /\ \A i \in 1..N :
                /\ ret.results[i] # NilPtr
                /\ Deref(ret.results[i]).Domain = domains[i]

\* C2: when CheckDomainsWithProgress returned through its timeout branch, it
\* returned a list of len(D) entries and a nil error, and every index whose
\* message the collector had not taken holds the synthetic result: Domain
\* D[i], Index i, Suitable false and the timeout error.
C2_TimeoutFillsUndelivered ==
    pret.by = "timeout" =>
        /\ pret.list = "slice"
        /\ pret.err = Nil
        /\ Len(pret.results) = N
        /\ \A i \in 1..N :
              ~Collected(i) =>
                  /\ pret.results[i] # NilPtr
                  /\ Deref(pret.results[i]).Domain = domains[i]
                  /\ Deref(pret.results[i]).Index = i - 1
                  /\ Deref(pret.results[i]).Suitable = FALSE
                  /\ Deref(pret.results[i]).Error = ErrTimeout

\* C2 witness: the timeout branch returned with one message taken and another
\* index still undelivered.
C2_Witness ==
    /\ pret.by = "timeout"
    /\ \E i, j \in 1..N :
          /\ Collected(i)
          /\ pret.results[i] # NilPtr
          /\ Deref(pret.results[i]).Error # ErrTimeout
          /\ ~Collected(j)

\* C3: a slot that holds a result is never written again, by the timeout
\* branch or by anything else, and once CheckDomainsWithProgress has returned
\* neither the slice nor the returned list changes, whatever the workers that
\* are still running do.
C3_SlotsNeverOverwritten ==
    [][ /\ \A i \in 1..Len(results) :
              results[i] # NilPtr => results'[i] = results[i]
        /\ pret # NoReturn => (results' = results /\ pret' = pret) ]_vars

\* C3 witness: after the timeout branch returned, one slot holds the real
\* result delivered before the deadline, another the synthetic one, and the
\* run of that other slot has finished and sent its message since.
C3_Witness ==
    /\ pret.by = "timeout"
    /\ \E i, j \in 1..N :
          /\ results[i] # NilPtr
          /\ Deref(results[i]).Error # ErrTimeout
          /\ results[j] = TimeoutResult(j, domains[j])
          /\ wpc[j] = "sent"

\* C4: at most poolSize workers are between taking and giving back a permit,
\* and the permits taken are exactly those of the workers in between (each
\* worker that took one gave it back once when it finished).
C4_PoolBound ==
    /\ Cardinality(Holders) <= poolSize
    /\ semaphore = Cardinality(Holders)

\* C4 witness: more domains than permits, a worker that took a permit and
\* finished on cancellation, and another worker holding the permit after it.
C4_Witness ==
    /\ N > poolSize
    /\ poolSize >= 1
    /\ \E i, j \in 1..Len(wpc) :
          /\ wpc[i] = "cancelled"
          /\ held[i] # NoMessage
          /\ wpc[j] \in {"running", "sending"}

\* C5: once the external context is cancelled while the collector still
\* lacks results (and the deadline has not fired), whatever the collector
\* returns is a nil list and the context's error, never a per-domain list.
C5_CancelAborts ==
    [][ (/\ ctxDone
         /\ ~timerFired
         /\ cpc = "collecting"
         /\ completed < N
         /\ cpc' = "reporting")
        => (/\ pret'.list = "nil"
            /\ pret'.err = ErrCtx) ]_vars

\* C6: an entry point called on a manager that is not running returns the
\* not-running error and no results and never reaches the engine; CheckDomains
\* on a running manager with no domains returns an empty list and no error
\* and never reaches the engine.
C6_GuardedEntry ==
    /\ (op # "none" /\ ~running) =>
          /\ cpc = "done"
          /\ ret.list = "nil"
          /\ ret.err = ErrNotRunning
          /\ wpc = <<>>
          /\ engineCalls = <<>>
          /\ streamCalls = 0
    /\ (op = "CheckDomains" /\ running /\ domains = <<>>) =>
          /\ cpc = "done"
          /\ ret.list = "slice"
          /\ ret.results = <<>>
          /\ ret.err = Nil
          /\ wpc = <<>>
          /\ engineCalls = <<>>
          /\ streamCalls = 0

\* C6 witness: CheckDomainsStream with domains on a manager that was started
\* and stopped returned the not-running error.
C6_Witness ==
    /\ op = "CheckDomainsStream"
    /\ engine = "stopped"
    /\ ~running
    /\ domains # <<>>
    /\ ret.err = ErrNotRunning

\* C7: when engine.CheckDomain reported an error for some domain (and nothing
\* was cancelled), CheckDomains does not crash, and when it has returned it
\* returned no error and len(D) results; if no deadline cut the batch short,
\* each result is the one the engine returned for that domain.
C7_ErrorNeverAborts ==
    (/\ op = "CheckDomains"
     /\ ~ctxDone
     /\ \E i \in 1..Len(held) : held[i].Error # Nil)
    => /\ cpc # "panic"
       /\ cpc = "done" =>
             /\ ret.err = Nil
             /\ ret.list = "slice"
             /\ Len(ret.results) = N
             /\ ret.by = "loop" =>
                   \A j \in 1..N : ret.results[j] = held[j].Result

\* Codes the specification lists as excluded.
ListedExcluded == {301, 302, 401, 403, 404, 407, 408, 429} \cup 500..599

HardRequirementsMet(r) ==
    /\ r.TLS # NilPtr
    /\ Deref(r.TLS).SupportsTLS13
    /\ Deref(r.TLS).SupportsX25519
    /\ Deref(r.TLS).SupportsHTTP2
    /\ r.SNI # NilPtr
    /\ Deref(r.SNI).SNIMatch
HandshakeWithinLimit(r) ==
    /\ r.TLS # NilPtr
    /\ Deref(r.TLS).HandshakeTime > 0
    /\ Deref(r.TLS).HandshakeTime <= 10 * 1000
NotCDN(r) == r.CDN = NilPtr \/ ~Deref(r.CDN).IsCDN
ComOrNet(r) == HasSuffix(r.Domain, DotCom) \/ HasSuffix(r.Domain, DotNet)

Predicates(r) ==
    <<HardRequirementsMet(r), HandshakeWithinLimit(r), NotCDN(r), ComOrNet(r)>>
PredicateCount(r) == Cardinality({k \in 1..4 : Predicates(r)[k]})

\* The results that differ from r in one sub-result or in the domain.
Variants(r) ==
    {[r EXCEPT !.TLS = t] : t \in OptionalOf(TLSResults)}
    \cup {[r EXCEPT !.SNI = x] : x \in OptionalOf(SNIResults)}
    \cup {[r EXCEPT !.CDN = c] : c \in OptionalOf(CDNResults)}
    \cup {[r EXCEPT !.Domain = d] : d \in StarDomains}

\* r2 is r with predicate k turned from false to true and the others fixed.
TurnsOn(r, r2, k) ==
    /\ ~Predicates(r)[k]
    /\ Predicates(r2)[k]
    /\ \A m \in 1..4 : m # k => Predicates(r2)[m] = Predicates(r)[m]

\* C9: the star count is a number in 0..4, the number of the four predicates
\* that hold, in both computations; and turning one predicate from false to
\* true with the others fixed raises it by exactly one.
C9_StarCount ==
    /\ stars # <<>> =>
          /\ stars[1] \in 0..4
          /\ stars[1] = PredicateCount(result)
          /\ \A r2 \in Variants(result) : \A k \in 1..4 :
                TurnsOn(result, r2, k) => calculateStars(r2) = stars[1] + 1
    /\ (recommendation # <<>> /\ ~result.EarlyExit) =>
          recommendation[1] = StarsText(PredicateCount(result))

\* C10: a result with EarlyExit set is invalid wherever a recommendation is
\* computed for it: the displayed text is the invalid text, and the star
\* value used for ordering credits it no star.
C10_EarlyExitInvalid ==
    result.EarlyExit =>
        /\ recommendation # <<>> => recommendation[1] = InvalidText
        /\ stars # <<>> => stars[1] \notin 1..4

\* The entries of the report's input that count as successful: no error, or
\* an error that says the domain is blocked or the site is domestic.
SuccessfulEntries ==
    {i \in 1..Len(reportInput) :
        \/ Deref(reportInput[i]).Error = NilPtr
        \/ Contains(Deref(Deref(reportInput[i]).Error), PhraseBlocked)
        \/ Contains(Deref(Deref(reportInput[i]).Error), PhraseDomestic)}

\* C11: in the statistics generateBatchReport returns, the successful checks
\* are the results without error or with a blocked or domestic error, the
\* failed checks are all the others, the two add up to TotalDomains, which is
\* the length of the list, and neither the suitable nor the blocked count
\* exceeds it.
C11_ReportCounts ==
    reportPc = "done" =>
        /\ statistics.SuccessfulChecks = Cardinality(SuccessfulEntries)
        /\ statistics.FailedChecks =
              Len(reportInput) - Cardinality(SuccessfulEntries)
        /\ statistics.SuccessfulChecks + statistics.FailedChecks
              = statistics.TotalDomains
        /\ statistics.TotalDomains = Len(reportInput)
        /\ statistics.SuitableDomains <= statistics.TotalDomains
        /\ statistics.BlockedDomains <= statistics.TotalDomains

\* C11 witness: a report over a blocked-domain error and a technical error
\* counted one successful and one failed check.
C11_Witness ==
    /\ reportPc = "done"
    /\ Len(reportInput) = 2
    /\ Deref(reportInput[1]).Error = Ptr(PhraseBlocked)
    /\ Deref(reportInput[2]).Error = Ptr(<<"jian", "ce", "chao", "shi">>)
    /\ statistics.SuccessfulChecks = 1
    /\ statistics.FailedChecks = 1

\* The states in which validateAndSetDefaults has run on the configuration.
Validated == configPc \in {"validated", "loaded", "revalidated"}

\* C12: after validateAndSetDefaults, and so after LoadConfig, whatever the
\* input configuration: the network timeout is positive and is 30 s where the
\* input's was <= 0, the DNS server list is not empty and is {8.8.8.8,
\* 1.1.1.1} where the input's was empty, the maximum concurrency is positive
\* and is 8 where the input's was <= 0, and the concurrency the batch manager
\* sizes its worker pool from, Concurrency.MinConcurrent, is at least 1.
C12_ValidatedConfig ==
    /\ Validated =>
          /\ config.NetworkTimeout > 0
          /\ Len(config.DNSServers) > 0
          /\ config.MaxConcurrent > 0
          /\ config.MinConcurrent >= 1
    /\ configPc = "validated" =>
          /\ fileConfig.NetworkTimeout <= 0 => config.NetworkTimeout = 30
          /\ Len(fileConfig.DNSServers) = 0
                => config.DNSServers = DefaultDNSServers
          /\ fileConfig.MaxConcurrent <= 0 => config.MaxConcurrent = 8

\* The part of C12 that does not concern Concurrency.MinConcurrent.
C12_OtherFields ==
    /\ Validated =>
          /\ config.NetworkTimeout > 0
          /\ Len(config.DNSServers) > 0
          /\ config.MaxConcurrent > 0
    /\ configPc = "validated" =>
          /\ fileConfig.NetworkTimeout <= 0 => config.NetworkTimeout = 30
          /\ Len(fileConfig.DNSServers) = 0
                => config.DNSServers = DefaultDNSServers
          /\ fileConfig.MaxConcurrent <= 0 => config.MaxConcurrent = 8
    /\ configPc = "loaded" => config.MinConcurrent >= 1

\* The last part of C12: validateAndSetDefaults applied to a validated
\* configuration changes nothing.
C12_Idempotent == [][Validated => config' = config]_vars

\* C13: in the configuration LoadConfig returns, every field the file leaves
\* out (its zero value in the parsed file) has its getDefaultConfig value: the
\* retry count 1, and true for the color, DNS cache, result cache and
\* progress bar flags.
C13_AbsentFieldsKeepDefaults ==
    configPc = "loaded" =>
        \A x \in DOMAIN ZeroConfig :
            fileConfig[x] = ZeroConfig[x] => config[x] = getDefaultConfig[x]

\* The part of C13 that holds: it leaves out the retry count and the four
\* flags whose default is true.
C13_OtherFields ==
    configPc = "loaded" =>
        \A x \in DOMAIN ZeroConfig \ {"Retries", "Color", "DNSEnabled",
                                       "ResultEnabled", "ProgressBar"} :
            fileConfig[x] = ZeroConfig[x] => config[x] = getDefaultConfig[x]

\* C14: once CheckDomainsWithProgress has returned through its timeout
\* branch the workers' context is cancelled: no worker that was still waiting
\* for a permit takes one and starts its pipeline run afterwards.
C14_TimeoutCancelsWorkers ==
    [][pret.by = "timeout" =>
          \A i \in 1..Len(wpc) :
              wpc[i] = "waiting" => wpc'[i] # "running"]_vars

\* The indexes (Go indexes) of the messages waiting in the result channel.
BufferedIndexes == {resultChan[k].Index : k \in 1..Len(resultChan)}

\* C15: in one call engine.CheckDomain is invoked at most once for each
\* index, whether the call ended in an error, a cancellation or a timeout;
\* each index puts at most one message on the result channel, the messages
\* sent being those received plus those still buffered; and completed never
\* exceeds len(D).
C15_OneRunPerIndex ==
    /\ \A i \in 1..Len(wpc) :
          /\ engineCalls[i] <= 1
          /\ wpc[i] \in {"sending", "sent"} => engineCalls[i] = 1
    /\ Cardinality(BufferedIndexes) = Len(resultChan)
    /\ completed + Len(resultChan)
          = Cardinality({i \in 1..Len(wpc) : wpc[i] = "sent"})
    /\ completed <= N

\* C15 witness: a list naming one domain twice, both indexes run once, one of
\* the runs ended in an error, and both messages were collected.
C15_Witness ==
    /\ N = 2
    /\ domains[1] = domains[2]
    /\ engineCalls = <<1, 1>>
    /\ held[1].Error = ErrProbe
    /\ completed = 2

\* C17: the collector never takes a receive from the result channel after
\* the producer closed it while completed < len(D).
C17_NoReceiveOnClosed ==
    [][~(/\ cpc = "collecting"
         /\ closed
         /\ resultChan = <<>>
         /\ completed < N
         /\ cpc' = "panic")]_vars

\* Every engine.CheckDomain call of the batch has returned: no worker is
\* waiting for a permit or inside the engine.
AllCallsReturned ==
    /\ wpc # <<>>
    /\ \A i \in 1..Len(wpc) : wpc[i] \in {"sending", "sent", "cancelled"}

\* C18: a worker at its send always finds room in the result channel, which
\* never holds more than len(D) messages; and once every engine.CheckDomain
\* call has returned, the workers all terminate, no semaphore permit stays
\* taken and the producer closes the channel, the collector being there or
\* not.
C18_WorkersTerminate ==
    /\ [](\A i \in 1..Len(wpc) :
             wpc[i] = "sending" => CanSend(Len(resultChan), N))
    /\ [](Len(resultChan) <= N)
    /\ [](WorkersDone => semaphore = 0)
    /\ (AllCallsReturned ~> (WorkersDone /\ semaphore = 0 /\ closed))

\* C18 witness: the collector has returned through the timeout branch, and
\* after that a worker sent its message, which stays in the channel, the
\* permits are free and the channel is closed.
C18_Witness ==
    /\ pret.by = "timeout"
    /\ \E i \in 1..Len(wpc) : wpc[i] = "sent"
    /\ resultChan # <<>>
    /\ semaphore = 0
    /\ closed

\* CheckDomainsWithProgress has returned.
Returned == pret # NoReturn

\* Every slot of the returned list holds a result an engine run produced.
AllSlotsReal ==
    /\ Len(pret.results) = N
    /\ \A i \in 1..N :
          /\ pret.results[i] # NilPtr
          /\ pret.results[i] # TimeoutResult(i, domains[i])

\* C19: under fair scheduling, a batch with a pool of at least 1 that is not
\* cancelled and whose runs end before the deadline returns from the loop
\* with every slot filled by a real result; and whatever the pool size, once
\* the deadline has fired the call returns.
C19_EventuallyReturns ==
    /\ (poolSize >= 1 /\ cpc = "collecting")
          ~> (ctxDone \/ timerFired \/ (pret.by = "loop" /\ AllSlotsReal))
    /\ (timerFired ~> Returned)

\* C20: whenever the manager is running, its engine exists, was started
\* successfully and has not been stopped since.
C20_RunningMeansEngineStarted == running => engine = "started"

\* The rest of C20: Start on a running manager and Stop on a manager that
\* is not running change nothing (and return an error and nil).
C20_RejectedCallsChangeNothing ==
    [][/\ (running /\ ret'.by = "Start" /\ cpc' = "idle")
            => (running' /\ engine' = engine /\ ret'.err = ErrAlreadyRunning)
       /\ (~running /\ ret'.by = "Stop" /\ cpc' = "idle")
            => (~running' /\ engine' = engine /\ ret'.err = Nil)]_vars

\* The three predicates of the star count other than the handshake time.
OtherStars(r) == Cardinality({k \in {1, 3, 4} : Predicates(r)[k]})

\* C16: the handshake star (the star count less the stars of the other three
\* predicates) is awarded exactly when the result has a TLS sub-result with a
\* measured handshake time of at most 10 ms, in both computations: above
\* 10 ms, such as 10.5 ms, there is no star.
C16_HandshakeStar ==
    /\ stars # <<>> =>
          (stars[1] - OtherStars(result) = 1 <=> HandshakeWithinLimit(result))
    /\ (recommendation # <<>> /\ ~result.EarlyExit) =>
          (Len(recommendation[1]) - OtherStars(result) = 1
             <=> HandshakeWithinLimit(result))

====
